---- MODULE Spec2Model ----
(***************************************************************************)
(* Model of BayesicSpace::ParseFASTA (src/src/fastaParser.cpp,             *)
(* src/include/fastaParser.hpp): construction of the alignment store from  *)
(* the text of a FASTA file, the column consensus, imputation of missing   *)
(* data, window extraction and the sliding-window diversity scan.          *)
(*                                                                         *)
(* A std::string is a sequence of one-character strings; a file is the     *)
(* sequence of its lines together with whether its last line is ended by   *)
(* a newline.                                                              *)
(***************************************************************************)
EXTENDS Integers, Sequences, FiniteSets, Bags, TLC

\* ------------------------------------------------------------- bounds

\* Most records in a generated alignment file.
MaxRecords == 3
\* Longest sequence in a generated alignment file.
MaxLen == 3
\* Most residues (records times columns) in a generated alignment file.
MaxCells == 6
\* Most lines in a free-form input file.
MaxLines == 4
\* Most calls of imputeMissing in one run.
MaxImputeCalls == 2
\* Largest step size handed to diversityInWindows.
MaxStep == 2

\* ------------------------------------------------------ the alphabet

\* Residues of the generated alignment files: a nucleotide, the missing
\* code N, and an ambiguity code outside both standard sets.
Symbols == {"A", "N", "Y"}

\* Lines of the free-form input files.
LineChoices ==
  { <<>>, <<">">>, <<">", " ">>, <<">", " ", "x">>, <<">", "y">>,
    <<" ">>, <<"A">>, <<"a">>, <<"N", "A">> }

\* Labels of the records of the generated alignment files.
Labels == <<"p", "q", "r", "s", "t">>

\* ------------------------------------------------------- sequences

Min(a, b) == IF a < b THEN a ELSE b

Range(f) == { f[x] : x \in DOMAIN f }

\* All sequences over S of length at most n.
SeqsUpTo(S, n) == UNION { [1..k -> S] : k \in 0..n }

\* std::string::find_first_not_of(' '): the 0-based index of the first
\* character that is not a space, or -1 (npos).
FindFirstNotOfSpace(s) ==
  IF \E i \in 1..Len(s) : s[i] /= " "
    THEN (CHOOSE i \in 1..Len(s) :
            s[i] /= " " /\ \A j \in 1..(i - 1) : s[j] = " ") - 1
    ELSE -1

\* std::string::erase(0, n).
Erase(s, n) == SubSeq(s, n + 1, Len(s))

\* Variant: substr(pos), the length left out.
SubstrToEnd(s, pos, n) == SubSeq(s, pos + 1, Len(s))

\* std::string::substr(pos, n) for pos <= size(): the characters
\* [pos, min(pos + n, size())).
Substr(s, pos, n) == SubSeq(s, pos + 1, Min(pos + n, Len(s)))

\* ----------------------------------------------------- makeConsensus_

\* standardNucleotides of makeConsensus_.
ConsensusNucleotides ==
  {"A", "a", "C", "c", "T", "t", "G", "g", "N", "n", "-"}

\* standardNucleotides of imputeMissing.
ImputeNucleotides == {"A", "a", "C", "c", "T", "t", "G", "g", "-"}

\* The character codes std::hash<char> returns for the tallied characters.
CharCode ==
  [c \in ConsensusNucleotides |->
     CASE c = "A" -> 65  [] c = "a" -> 97  [] c = "C" -> 67
       [] c = "c" -> 99  [] c = "T" -> 84  [] c = "t" -> 116
       [] c = "G" -> 71  [] c = "g" -> 103 [] c = "N" -> 78
       [] c = "n" -> 110 [] c = "-" -> 45]

\* Buckets of the std::unordered_map<char, uint32_t> once it holds an
\* element (it never holds more than the eleven tallied characters).
BucketCount == 13

Bucket(c) == CharCode[c] % BucketCount

\* The empty tally: no key, nothing to iterate.
EmptyTally == [order |-> <<>>, count |-> [c \in {} |-> 0]]

\* ++nucleotides[c].  A known key is incremented in place.  A new key is
\* linked in front of the keys of its bucket, or in front of all keys
\* when its bucket is empty: this is the order the map is iterated in.
TallyIncrement(t, c) ==
  IF c \in DOMAIN t.count
    THEN [t EXCEPT !.count[c] = @ + 1]
    ELSE LET same == { i \in 1..Len(t.order) : Bucket(t.order[i]) = Bucket(c) }
             at   == IF same = {} THEN 1
                     ELSE CHOOSE i \in same : \A j \in same : i <= j
         IN [order |-> SubSeq(t.order, 1, at - 1) \o <<c>>
                         \o SubSeq(t.order, at, Len(t.order)),
             count |-> (c :> 1) @@ t.count]

\* The inner loop of makeConsensus_ over the records, for column iNuc
\* (1-based), from record k on: only standard characters are tallied.
RECURSIVE TallyColumn(_, _, _, _)
TallyColumn(recs, iNuc, k, t) ==
  IF k > Len(recs) THEN t
  ELSE LET curNucleotide == recs[k].second[iNuc]
       IN TallyColumn(recs, iNuc, k + 1,
            IF curNucleotide \in ConsensusNucleotides
              THEN TallyIncrement(t, curNucleotide)
              ELSE t)

\* std::max_element over the tally with the comparator
\* count1.second < count2.second: the first key, in iteration order,
\* that no later key exceeds strictly.  0 stands for end().
RECURSIVE MaxElementFrom(_, _, _)
MaxElementFrom(t, largest, k) ==
  IF k > Len(t.order) THEN largest
  ELSE MaxElementFrom(t,
         IF t.count[t.order[largest]] < t.count[t.order[k]] THEN k ELSE largest,
         k + 1)

\* Variant: the comparator reversed (count1.second > count2.second), which
\* finds a key of the lowest count.
MaxElementReversed(t) ==
  IF t.order = <<>> THEN 0
  ELSE CHOOSE k \in 1..Len(t.order) :
         /\ \A j \in 1..Len(t.order) : t.count[t.order[j]] >= t.count[t.order[k]]
         /\ \A j \in 1..(k - 1) : t.count[t.order[j]] > t.count[t.order[k]]

\* std::max_element(nucleotides.begin(), nucleotides.end(), ...).
MaxElement(t) == IF t.order = <<>> THEN 0 ELSE MaxElementFrom(t, 1, 2)

\* The symbol makeConsensus_ pushes for column iNuc.
ConsensusSymbol(recs, iNuc) ==
  LET nucleotides == TallyColumn(recs, iNuc, 1, EmptyTally)
      maxCountIt  == MaxElement(nucleotides)
  IN IF maxCountIt = 0 THEN "N" ELSE nucleotides.order[maxCountIt]

\* alignmentLength(): fastaAlignment_.at(0).second.size().
AlignmentLength(recs) == Len(recs[1].second)

\* Variant: the column loop stops one column early.
MakeConsensusShort(recs) ==
  [iNuc \in 1..(AlignmentLength(recs) - 1) |-> ConsensusSymbol(recs, iNuc)]

\* makeConsensus_(): one symbol per column of the first record.
MakeConsensus(recs) ==
  [iNuc \in 1..AlignmentLength(recs) |-> ConsensusSymbol(recs, iNuc)]

\* ------------------------------------------- ParseFASTA(fastaFileName)

\* What the constructor leaves behind: the error it threw ("none" when it
\* returned) and the two members.
Thrown(e) == [error |-> e, fastaAlignment |-> <<>>, consensus |-> <<>>]

\* The index of the first line that is not empty, 0 when every line is:
\* while ( std::getline(fastaFile, fastaLine) && fastaLine.empty() ) {}
FirstNonEmpty(lines) ==
  IF \E i \in 1..Len(lines) : lines[i] /= <<>>
    THEN CHOOSE i \in 1..Len(lines) :
           lines[i] /= <<>> /\ \A j \in 1..(i - 1) : lines[j] = <<>>
    ELSE 0

\* fastaFile.eof() after line k was read: getline reached the end of the
\* file while reading it, the last line having no newline after it.
EofAfter(file, k) == k = Len(file.lines) /\ ~file.finalNewline

\* Variant: the leading spaces are kept.
HeaderKeepSpaces(line) == Erase(line, 1)

\* A marker line without its ">" and its leading spaces; <<>> when it
\* holds nothing but spaces (the constructor then throws).
HeaderOf(line) ==
  LET rest == Erase(line, 1)
      firstNonSpace == FindFirstNotOfSpace(rest)
  IN IF firstNonSpace = -1 THEN <<>> ELSE Erase(rest, firstNonSpace)

\* The second getline loop, from line k on: empty lines are skipped, a
\* marker line opens a record, any other line is appended to the
\* sequence of the last record.
RECURSIVE ReadRecords(_, _, _)
ReadRecords(lines, k, recs) ==
  IF k > Len(lines) THEN [error |-> "none", records |-> recs]
  ELSE LET fastaLine == lines[k]
       IN IF fastaLine = <<>> THEN ReadRecords(lines, k + 1, recs)
          ELSE IF fastaLine[1] = ">"
            THEN IF HeaderOf(fastaLine) = <<>>
                   THEN [error |-> "blank header", records |-> <<>>]
                   ELSE ReadRecords(lines, k + 1,
                          Append(recs, [first |-> HeaderOf(fastaLine),
                                        second |-> <<>>]))
            ELSE ReadRecords(lines, k + 1,
                   [recs EXCEPT ![Len(recs)].second = @ \o fastaLine])

\* Variant: a single record is accepted.
TooFewRecordsOne(recs) == Len(recs) < 1

\* fastaAlignment_.size() < 2
TooFewRecords(recs) == Len(recs) < 2

\* Variant: only a shorter sequence is refused (< in place of !=).
LengthsDifferShorter(recs) ==
  \E r \in 1..Len(recs) : Len(recs[r].second) < Len(recs[1].second)

\* The loop over the records after the first: eachSeq.second.size() !=
\* alignmentSize, alignmentSize being the size of the first sequence.
LengthsDiffer(recs) ==
  \E r \in 1..Len(recs) : Len(recs[r].second) /= Len(recs[1].second)

\* The constructor from a file.
ParseFASTA(file) ==
  LET first == FirstNonEmpty(file.lines)
  IN IF first = 0 \/ EofAfter(file, first) THEN Thrown("all lines empty")
     ELSE IF file.lines[first][1] /= ">" THEN Thrown("no > on the first line")
     ELSE IF HeaderOf(file.lines[first]) = <<>> THEN Thrown("blank header")
     ELSE LET read == ReadRecords(file.lines, first + 1,
                        << [first |-> HeaderOf(file.lines[first]),
                            second |-> <<>>] >>)
              recs == read.records
          IN IF read.error /= "none" THEN Thrown(read.error)
             ELSE IF TooFewRecords(recs) THEN Thrown("fewer than two records")
             ELSE IF LengthsDiffer(recs) THEN Thrown("sequences differ in length")
             ELSE [error |-> "none", fastaAlignment |-> recs,
                   consensus |-> MakeConsensus(recs)]

\* ------------------------------------------------------ imputeMissing

\* Variant: the lambda tests against the standard set of makeConsensus_,
\* which holds N and n.
ImputeSymbolAsConsensusSet(nuc1, nuc2) ==
  IF nuc1 \notin ConsensusNucleotides THEN nuc2 ELSE nuc1

\* The lambda of the std::transform: nuc1 is the record's symbol, nuc2
\* the consensus symbol of the same column.
ImputeSymbol(nuc1, nuc2) ==
  IF nuc1 \notin ImputeNucleotides THEN nuc2 ELSE nuc1

\* Variant: the transform writes through a std::back_inserter, so that
\* the imputed symbols follow the sequence in place of overwriting it.
ImputeRecordsAppending(recs, cons) ==
  [r \in 1..Len(recs) |->
     [recs[r] EXCEPT !.second =
        @ \o [i \in 1..Len(recs[r].second) |->
                ImputeSymbol(recs[r].second[i], cons[i])]]]

\* Variant: the transform reads each sequence from its second symbol on
\* (cbegin() + 1), so that every call shifts the sequence by one.
ImputeRecordsShifted(recs, cons) ==
  [r \in 1..Len(recs) |->
     [recs[r] EXCEPT !.second =
        [i \in 1..Len(recs[r].second) |->
           IF i < Len(recs[r].second)
             THEN ImputeSymbol(recs[r].second[i + 1], cons[i])
             ELSE recs[r].second[i]]]]

\* imputeMissing(): every sequence transformed against the consensus.
ImputeRecords(recs, cons) ==
  [r \in 1..Len(recs) |->
     [recs[r] EXCEPT !.second =
        [i \in 1..Len(recs[r].second) |-> ImputeSymbol(recs[r].second[i], cons[i])]]]

\* ------------------------------------------------------ extractWindow

EmptyTable == [key \in {} |-> 0]

\* Variant: table[key] = 1 in place of ++table[key].
TableOverwrite(table, key) == (key :> 1) @@ table

\* ++table[key] on a std::unordered_map<std::string, uint32_t>.
TableIncrement(table, key) ==
  IF key \in DOMAIN table THEN [table EXCEPT ![key] = @ + 1]
  ELSE (key :> 1) @@ table

\* for (eachSeq : fastaAlignment_) ++table[eachSeq.second.substr(pos, n)],
\* from record k on.
RECURSIVE TallyWindow(_, _, _, _, _)
TallyWindow(recs, pos, n, k, table) ==
  IF k > Len(recs) THEN table
  ELSE TallyWindow(recs, pos, n, k + 1,
         TableIncrement(table, Substr(recs[k].second, pos, n)))

\* A size_t is held as the integer nearest zero that is congruent to it
\* modulo 2^64: -k stands for 2^64 - k, the value static_cast<size_t>(-k)
\* has and the value 0 - k wraps to.  Sums of such integers are the sums
\* modulo 2^64; a negative one is above every length.
Huge(x) == x < 0

\* Variant: a start at the very end of a sequence is refused too.
SubstrThrowsAtEnd(recs, pos) ==
  \E r \in 1..Len(recs) : Huge(pos) \/ pos >= Len(recs[r].second)

\* substr throws std::out_of_range when pos > size().
SubstrThrows(recs, pos) ==
  \E r \in 1..Len(recs) : Huge(pos) \/ pos > Len(recs[r].second)

\* The sum of the counts of a table.
RECURSIVE SumCounts(_)
SumCounts(table) ==
  IF DOMAIN table = {} THEN 0
  ELSE LET key == CHOOSE k \in DOMAIN table : TRUE
       IN table[key] + SumCounts([k \in DOMAIN table \ {key} |-> table[k]])

\* Variant: equal counts are kept once.
CountsOfDistinct(table) == [c \in Range(table) |-> 1]

\* The counts of a table as the multiset diversityInWindows keeps of them
\* (the vector is filled in the table's iteration order, which depends on
\* std::hash<std::string>; only its content is modelled).
CountsOf(table) ==
  [c \in Range(table) |-> Cardinality({ key \in DOMAIN table : table[key] = c })]

\* The sum of a multiset of counts.
RECURSIVE SumBag(_)
SumBag(bag) ==
  IF DOMAIN bag = {} THEN 0
  ELSE LET c == CHOOSE x \in DOMAIN bag : TRUE
       IN c * bag[c] + SumBag([x \in DOMAIN bag \ {c} |-> bag[x]])

\* ------------------------------------------------------- the state

VARIABLES
  input,            \* the file the store is constructed from
  pc,               \* "start", "built", "failed" (the constructor threw),
                    \* "empty" (the store holds no record) or "crashed"
                    \* (the process was killed)
  error,            \* what the constructor threw, "none" otherwise
  fastaAlignment_,  \* the records: sequence of [first: header, second: sequence]
  consensus_,       \* the consensus sequence
  imputeCalls,      \* calls of imputeMissing so far
  lastOp,           \* the last call, what it returned and the other store
                    \* it made or used
  scan,             \* the running or last call of diversityInWindows
  driver            \* the run of main() of homoruns

vars ==
  <<input, pc, error, fastaAlignment_, consensus_, imputeCalls, lastOp, scan, driver>>

\* The file of an alignment m (m[r][i] is the symbol of record r at
\* column i): per record its marker line and its sequence on one line.
AlignmentFile(m) ==
  [lines |-> [j \in 1..(2 * Len(m)) |->
                IF j % 2 = 1 THEN <<">", Labels[(j + 1) \div 2]>> ELSE m[j \div 2]],
   finalNewline |-> TRUE]

\* The shapes (records, columns) of the generated alignments.
Shapes ==
  { sh \in (2..MaxRecords) \X (0..MaxLen) : sh[1] * sh[2] <= MaxCells }

AlignmentFiles ==
  { AlignmentFile(m) :
      m \in UNION { [1..sh[1] -> [1..sh[2] -> Symbols]] : sh \in Shapes } }

\* Free-form files: any lines of LineChoices; a file whose last line has
\* no newline after it ends with a line that is not empty.
FreeFiles ==
  { [lines |-> ls, finalNewline |-> nl] :
      ls \in SeqsUpTo(LineChoices, MaxLines), nl \in BOOLEAN } \
  { f \in [lines : SeqsUpTo(LineChoices, MaxLines), finalNewline : {FALSE}] :
      f.lines = <<>> \/ f.lines[Len(f.lines)] = <<>> }

\* The members of a default-constructed store (ParseFASTA() = default).
DefaultMembers == [fastaAlignment |-> <<>>, consensus |-> <<>>]

\* No second store.
NoObject == [live |-> FALSE, fastaAlignment |-> <<>>, consensus |-> <<>>]

NoOp ==
  [op |-> "none", start |-> 0, size |-> 0, outcome |-> "none",
   table |-> EmptyTable, window |-> <<>>, object |-> NoObject,
   alignment |-> <<>>, statistics |-> <<>>]

IdleScan ==
  [pc |-> "idle", windowSize |-> 0, stepSize |-> 0,
   windowStart |-> 0, windowEnd |-> 0, result |-> <<>>]

\* No map of flags.
EmptyMap == [flag \in {} |-> ""]

\* main() of homoruns is not running.
IdleDriver ==
  [pc |-> "idle", argv |-> <<>>, cli |-> EmptyMap, intVariables |-> EmptyMap,
   stringVariables |-> EmptyMap, message |-> "none", status |-> "none",
   output |-> <<>>]

\* No store is constructed yet, no call is made yet.
InitStore ==
  /\ pc = "start"
  /\ error = "none"
  /\ fastaAlignment_ = <<>>
  /\ consensus_ = <<>>
  /\ imputeCalls = 0
  /\ lastOp = NoOp
  /\ scan = IdleScan

Init ==
  /\ input \in AlignmentFiles \cup FreeFiles
  /\ InitStore
  /\ driver = IdleDriver

\* ParseFASTA::ParseFASTA(const std::string &fastaFileName)
Construct ==
  /\ pc = "start"
  /\ LET made == ParseFASTA(input)
     IN /\ pc' = IF made.error = "none" THEN "built" ELSE "failed"
        /\ error' = made.error
        /\ fastaAlignment_' = made.fastaAlignment
        /\ consensus_' = made.consensus
  /\ UNCHANGED <<input, imputeCalls, lastOp, scan, driver>>

\* A member function can be called on a constructed store while no call
\* of diversityInWindows is running.
Callable == pc = "built" /\ scan.pc /= "loop"

\* void ParseFASTA::imputeMissing()
ImputeMissing ==
  /\ Callable
  /\ imputeCalls < MaxImputeCalls
  /\ fastaAlignment_' = ImputeRecords(fastaAlignment_, consensus_)
  /\ imputeCalls' = imputeCalls + 1
  /\ lastOp' = [NoOp EXCEPT !.op = "imputeMissing", !.outcome = "returned"]
  /\ scan' = IdleScan
  /\ UNCHANGED <<input, pc, error, consensus_, driver>>

\* Arguments of the window calls: up to one past the alignment length.
WindowArgs == 0..(AlignmentLength(fastaAlignment_) + 1)

\* ParseFASTA::extractWindow(windowStartPosition, windowSize)
ExtractWindow ==
  /\ Callable
  /\ \E windowStartPosition \in WindowArgs, windowSize \in WindowArgs :
       lastOp' =
         IF SubstrThrows(fastaAlignment_, windowStartPosition)
           THEN [NoOp EXCEPT !.op = "extractWindow",
                             !.start = windowStartPosition, !.size = windowSize,
                             !.outcome = "out_of_range"]
           ELSE [NoOp EXCEPT !.op = "extractWindow",
                             !.start = windowStartPosition, !.size = windowSize,
                             !.outcome = "returned",
                             !.table = TallyWindow(fastaAlignment_,
                                         windowStartPosition, windowSize, 1, EmptyTable)]
  /\ scan' = IdleScan
  /\ UNCHANGED <<input, pc, error, fastaAlignment_, consensus_, imputeCalls, driver>>

\* The byte std::copy_n reads at 0-based position i of consensus_: the
\* symbol when i is inside the string, memory that is not the string's
\* ("?") otherwise.
ConsensusByte(i) == IF i < Len(consensus_) THEN consensus_[i + 1] ELSE "?"

\* ParseFASTA::extractConsensusWindow(startIdx, windowLength): copy_n
\* copies windowLength bytes from consensus_.cbegin() + startIdx with no
\* check against the length.  Reading past the string is undefined: the
\* call returns windowLength bytes, those past the end being whatever the
\* memory holds, or the process is killed.
ExtractConsensusWindow ==
  /\ Callable
  /\ \E startIdx \in WindowArgs, windowLength \in WindowArgs :
       \E outcome \in IF startIdx + windowLength <= Len(consensus_)
                        THEN {"returned"} ELSE {"returned", "crashed"} :
         /\ lastOp' =
              [NoOp EXCEPT !.op = "extractConsensusWindow",
                           !.start = startIdx, !.size = windowLength,
                           !.outcome = outcome,
                           !.window = IF outcome = "returned"
                                        THEN [k \in 1..windowLength |->
                                                ConsensusByte(startIdx + k - 1)]
                                        ELSE <<>>]
         /\ pc' = IF outcome = "crashed" THEN "crashed" ELSE pc
  /\ scan' = IdleScan
  /\ UNCHANGED <<input, error, fastaAlignment_, consensus_, imputeCalls, driver>>

\* ParseFASTA::diversityInWindows(windowSize, stepSize): the call, up to
\* the first test of the loop condition.
ScanCall ==
  /\ Callable
  /\ \E windowSize \in WindowArgs, stepSize \in 0..MaxStep :
       scan' = [pc |-> "loop", windowSize |-> windowSize, stepSize |-> stepSize,
                windowStart |-> 0, windowEnd |-> windowSize, result |-> <<>>]
  /\ lastOp' = [NoOp EXCEPT !.op = "diversityInWindows"]
  /\ UNCHANGED <<input, pc, error, fastaAlignment_, consensus_, imputeCalls, driver>>

\* Variant: a window ending at the alignment length is scanned too.
LoopConditionInclusive(windowEnd) ==
  ~Huge(windowEnd) /\ windowEnd <= AlignmentLength(fastaAlignment_)

\* Variant: the loop goes on while the window starts inside the alignment.
LoopConditionPastEnd(windowEnd) ==
  ~Huge(windowEnd) /\ windowEnd <= AlignmentLength(fastaAlignment_) + 1

\* The loop condition of diversityInWindows: windowEnd < alignmentLength().
LoopCondition(windowEnd) ==
  ~Huge(windowEnd) /\ windowEnd < AlignmentLength(fastaAlignment_)

\* Windows a scan is followed for: a scan with stepSize >= 1 collects at
\* most alignmentLength() windows, a scan with stepSize 0 never leaves its
\* loop and is abandoned after one window more.
MaxScanWindows == AlignmentLength(fastaAlignment_) + 1

\* One iteration of the while loop of diversityInWindows; the substr of
\* its extractWindow throws when windowStart is past the sequences.
ScanStep ==
  /\ pc = "built"
  /\ scan.pc = "loop"
  /\ LoopCondition(scan.windowEnd)
  /\ Len(scan.result) < MaxScanWindows
  /\ IF SubstrThrows(fastaAlignment_, scan.windowStart)
       THEN scan' = [scan EXCEPT !.pc = "out_of_range"]
       ELSE LET sequenceTable == TallyWindow(fastaAlignment_, scan.windowStart,
                                             scan.windowSize, 1, EmptyTable)
            IN scan' = [scan EXCEPT
                          !.result = Append(@, [first |-> scan.windowStart,
                                                second |-> CountsOf(sequenceTable)]),
                          !.windowStart = @ + scan.stepSize,
                          !.windowEnd = @ + scan.stepSize]
  /\ UNCHANGED <<input, pc, error, fastaAlignment_, consensus_, imputeCalls, lastOp, driver>>

\* The loop condition fails: diversityInWindows returns result.
ScanReturn ==
  /\ pc = "built"
  /\ scan.pc = "loop"
  /\ ~LoopCondition(scan.windowEnd)
  /\ scan' = [scan EXCEPT !.pc = "returned"]
  /\ lastOp' = [lastOp EXCEPT !.outcome = "returned"]
  /\ UNCHANGED <<input, pc, error, fastaAlignment_, consensus_, imputeCalls, driver>>

Next ==
  \/ Construct
  \/ ImputeMissing
  \/ ExtractWindow
  \/ ExtractConsensusWindow
  \/ ScanCall
  \/ ScanStep
  \/ ScanReturn

Spec == Init /\ [][Next]_vars

\* ------------------------------------- default, copy and move

\* The members of the store.
Members == [fastaAlignment |-> fastaAlignment_, consensus |-> consensus_]

\* A second store with the members m.
Object(m) ==
  [live |-> TRUE, fastaAlignment |-> m.fastaAlignment, consensus |-> m.consensus]

\* operator=(const ParseFASTA &toCopy) with this != &toCopy: both
\* members are copied; what the target held is gone.
CopyAssign(target, toCopy) ==
  [fastaAlignment |-> toCopy.fastaAlignment, consensus |-> toCopy.consensus]

\* operator=(ParseFASTA &&toMove) with this != &toMove: both members are
\* move-assigned, which leaves the vector and the string of toMove empty
\* (libstdc++).
MoveAssign(target, toMove) ==
  [target |-> [fastaAlignment |-> toMove.fastaAlignment,
               consensus |-> toMove.consensus],
   toMove |-> [fastaAlignment |-> <<>>, consensus |-> <<>>]]

\* A store is there: it was constructed from the file and the process
\* lives.
StoreExists == pc \in {"built", "empty"} /\ scan.pc /= "loop"

\* The state of a store with the records recs.
PcOf(recs) == IF recs = <<>> THEN "empty" ELSE "built"

\* ParseFASTA other;  (ParseFASTA() = default)
DefaultConstruct ==
  /\ pc /= "crashed"
  /\ scan.pc /= "loop"
  /\ lastOp' = [NoOp EXCEPT !.op = "ParseFASTA()", !.outcome = "returned",
                            !.object = Object(DefaultMembers)]
  /\ scan' = IdleScan
  /\ UNCHANGED <<input, pc, error, fastaAlignment_, consensus_, imputeCalls, driver>>

\* ParseFASTA other(store);  the copy constructor is *this = toCopy on
\* default-initialised members.
CopyConstruct ==
  /\ StoreExists
  /\ lastOp' = [NoOp EXCEPT !.op = "ParseFASTA(const ParseFASTA &)",
                            !.outcome = "returned",
                            !.object = Object(CopyAssign(DefaultMembers, Members))]
  /\ scan' = IdleScan
  /\ UNCHANGED <<input, pc, error, fastaAlignment_, consensus_, imputeCalls, driver>>

\* ParseFASTA other( std::move(store) );  the move constructor is
\* *this = std::move(toMove) on default-initialised members.
MoveConstruct ==
  /\ StoreExists
  /\ LET moved == MoveAssign(DefaultMembers, Members)
     IN /\ lastOp' = [NoOp EXCEPT !.op = "ParseFASTA(ParseFASTA &&)",
                                  !.outcome = "returned",
                                  !.object = Object(moved.target)]
        /\ fastaAlignment_' = moved.toMove.fastaAlignment
        /\ consensus_' = moved.toMove.consensus
        /\ pc' = PcOf(moved.toMove.fastaAlignment)
  /\ scan' = IdleScan
  /\ UNCHANGED <<input, error, imputeCalls, driver>>

\* store = other;  other being the second store of the last call.
CopyAssignment ==
  /\ StoreExists
  /\ lastOp.object.live
  /\ LET copied == CopyAssign(Members, lastOp.object)
     IN /\ fastaAlignment_' = copied.fastaAlignment
        /\ consensus_' = copied.consensus
        /\ pc' = PcOf(copied.fastaAlignment)
  /\ lastOp' = [NoOp EXCEPT !.op = "operator=(const ParseFASTA &)",
                            !.outcome = "returned", !.object = lastOp.object]
  /\ scan' = IdleScan
  /\ UNCHANGED <<input, error, imputeCalls, driver>>

\* store = std::move(other);  other being the second store of the last
\* call.
MoveAssignment ==
  /\ StoreExists
  /\ lastOp.object.live
  /\ LET moved == MoveAssign(Members, lastOp.object)
     IN /\ fastaAlignment_' = moved.target.fastaAlignment
        /\ consensus_' = moved.target.consensus
        /\ pc' = PcOf(moved.target.fastaAlignment)
        /\ lastOp' = [NoOp EXCEPT !.op = "operator=(ParseFASTA &&)",
                                  !.outcome = "returned",
                                  !.object = Object(moved.toMove)]
  /\ scan' = IdleScan
  /\ UNCHANGED <<input, error, imputeCalls, driver>>

\* store.alignmentLength(): fastaAlignment_.at(0) throws
\* std::out_of_range on a store with no record.
AlignmentLengthCall ==
  /\ StoreExists
  /\ lastOp' = IF fastaAlignment_ = <<>>
                 THEN [NoOp EXCEPT !.op = "alignmentLength",
                                   !.outcome = "out_of_range"]
                 ELSE [NoOp EXCEPT !.op = "alignmentLength",
                                   !.outcome = "returned",
                                   !.size = AlignmentLength(fastaAlignment_)]
  /\ scan' = IdleScan
  /\ UNCHANGED <<input, pc, error, fastaAlignment_, consensus_, imputeCalls, driver>>

\* The stores of the free-form files, under every call of the public
\* interface.
InitObjects ==
  /\ input \in FreeFiles
  /\ InitStore
  /\ driver = IdleDriver

NextObjects ==
  \/ Next
  \/ DefaultConstruct
  \/ CopyConstruct
  \/ MoveConstruct
  \/ CopyAssignment
  \/ MoveAssignment
  \/ AlignmentLengthCall

SpecObjects == InitObjects /\ [][NextObjects]_vars

\* ParseFASTA::extractWindowSorted is declared (fastaParser.hpp:140) and
\* defined nowhere in the sources, and nothing calls it: it has no
\* behaviour to model and is no action of any specification here.

\* ---------------------------------------------------- extractSequence

\* The coordinates StripedSmithWaterman::Aligner::Align, a library that
\* is no part of the repository, leaves in alignment: any int32_t, here
\* from -1 to MaxCoord.
MaxCoord == 1

Alignments ==
  [ref_begin : -1..MaxCoord, ref_end : -1..MaxCoord,
   query_begin : -1..MaxCoord, query_end : -1..MaxCoord]

\* Variant: the test of query_begin is left out.
AlignmentStatisticsUnchecked(alignment) ==
  IF alignment.ref_begin < 0
    THEN [error |-> "ERROR: matching reference start value cannot be negative",
          result |-> <<>>]
  ELSE IF alignment.ref_end < alignment.ref_begin
    THEN [error |-> "ERROR: matching reference end must be greater than start",
          result |-> <<>>]
  ELSE IF alignment.query_end < alignment.query_begin
    THEN [error |-> "ERROR: query end must be greater than start", result |-> <<>>]
  ELSE [error |-> "none",
        result |-> [referenceStart |-> alignment.ref_begin,
                    referenceLength |-> alignment.ref_end - alignment.ref_begin,
                    queryStart |-> alignment.query_begin,
                    queryLength |-> alignment.query_end - alignment.query_begin]]

\* extractSequence after the call of the aligner: the four tests and the
\* AlignmentStatistics it returns (the casts to size_t are of values the
\* tests have found to be >= 0).
AlignmentStatistics(alignment) ==
  IF alignment.ref_begin < 0
    THEN [error |-> "ERROR: matching reference start value cannot be negative",
          result |-> <<>>]
  ELSE IF alignment.ref_end < alignment.ref_begin
    THEN [error |-> "ERROR: matching reference end must be greater than start",
          result |-> <<>>]
  ELSE IF alignment.query_begin < 0
    THEN [error |-> "ERROR: query start value cannot be negative", result |-> <<>>]
  ELSE IF alignment.query_end < alignment.query_begin
    THEN [error |-> "ERROR: query end must be greater than start", result |-> <<>>]
  ELSE [error |-> "none",
        result |-> [referenceStart |-> alignment.ref_begin,
                    referenceLength |-> alignment.ref_end - alignment.ref_begin,
                    queryStart |-> alignment.query_begin,
                    queryLength |-> alignment.query_end - alignment.query_begin]]

\* ParseFASTA::extractSequence(querySequence): the aligner is given the
\* query and the consensus and leaves its coordinates in alignment.
ExtractSequence ==
  /\ Callable
  /\ \E alignment \in Alignments :
       LET made == AlignmentStatistics(alignment)
       IN lastOp' = [NoOp EXCEPT !.op = "extractSequence",
                                 !.outcome = IF made.error = "none"
                                               THEN "returned" ELSE made.error,
                                 !.alignment = alignment,
                                 !.statistics = made.result]
  /\ scan' = IdleScan
  /\ UNCHANGED <<input, pc, error, fastaAlignment_, consensus_, imputeCalls, driver>>

\* ------------------------------------------- records over several lines

\* Lines of the files whose records run over several lines.
ParseLineChoices ==
  { <<>>, <<">", "y">>, <<">", " ", "x">>, <<" ">>, <<"A">>, <<"N", "A">> }

MaxParseLines == 5

ParseFiles ==
  { [lines |-> ls, finalNewline |-> nl] :
      ls \in SeqsUpTo(ParseLineChoices, MaxParseLines), nl \in BOOLEAN } \
  { f \in [lines : SeqsUpTo(ParseLineChoices, MaxParseLines), finalNewline : {FALSE}] :
      f.lines = <<>> \/ f.lines[Len(f.lines)] = <<>> }

InitParse ==
  /\ input \in ParseFiles
  /\ InitStore
  /\ driver = IdleDriver

NextParse == Construct

SpecParse == InitParse /\ [][NextParse]_vars

\* ------------------------------------------- the example alignment

\* The three sequences of the example alignment.
ScenarioSequences ==
  << <<"A", "A", "C", "C", "G", "G", "T", "T", "A", "A">>,
     <<"A", "A", "C", "C", "G", "G", "T", "T", "A", "A">>,
     <<"A", "A", "C", "C", "G", "G", "T", "T", "G", "G">> >>

\* The store is constructed from the file of the example alignment.
InitScenario ==
  /\ input = AlignmentFile(ScenarioSequences)
  /\ InitStore
  /\ driver = IdleDriver

SpecScenario == InitScenario /\ [][Next]_vars

\* ------------------------------------------------ parseCL, extractCLinfo

\* An argument that starts with two dashes, name being what follows
\* them, and one that does not.
\* The value texts of the command line are std::strings: sequences of
\* characters.  The literals of the code:
TextSet == <<"s", "e", "t">>
TextUnset == <<"u", "n", "s", "e", "t">>
TextTab == <<"t", "a", "b">>

FlagToken(name) == [dashes |-> TRUE, text |-> name]
ValueToken(text) == [dashes |-> FALSE, text |-> text]

\* The loop of parseCL from argument iArg on (argv[0], the program name,
\* is left out of argv).
RECURSIVE ParseArgs(_, _, _, _, _)
ParseArgs(argv, iArg, val, curFlag, cli) ==
  IF iArg > Len(argv) THEN cli
  ELSE LET pchar == argv[iArg]
       IN IF pchar.dashes
            THEN ParseArgs(argv, iArg + 1, TRUE, pchar.text,
                           IF val THEN (curFlag :> TextSet) @@ cli ELSE cli)
            ELSE IF val
              THEN ParseArgs(argv, iArg + 1, FALSE, curFlag,
                             (curFlag :> pchar.text) @@ cli)
              ELSE ParseArgs(argv, iArg + 1, val, curFlag, cli)

\* parseCL(argc, argv, cli) on an empty cli.
ParseCL(argv) == ParseArgs(argv, 1, FALSE, "", EmptyMap)

\* std::stoi(text), which is strtol(text, &end, 10) narrowed to int:
\* leading white space is skipped, one sign is taken, then the longest
\* run of decimal digits; what follows the digits is ignored.  It throws
\* std::invalid_argument when there is no digit, and std::out_of_range
\* when the number is not an int.
\* The white space is that of isspace: space, \t, \n, \v, \f and \r.
\* The vertical tab (character 11) has no escape in a string here: the
\* string of VerticalTab holds the character itself.
VerticalTab == ""

IsSpace(c) == c \in {" ", "\t", "\n", VerticalTab, "\f", "\r"}

DigitValue ==
  ("0" :> 0) @@ ("1" :> 1) @@ ("2" :> 2) @@ ("3" :> 3) @@ ("4" :> 4)
    @@ ("5" :> 5) @@ ("6" :> 6) @@ ("7" :> 7) @@ ("8" :> 8) @@ ("9" :> 9)

\* The position of the first character of text, from k on, that is no
\* white space (Len(text) + 1 when there is none).
RECURSIVE SkipSpace(_, _)
SkipSpace(text, k) ==
  IF k <= Len(text) /\ IsSpace(text[k]) THEN SkipSpace(text, k + 1) ELSE k

\* INT_MAX and INT_MIN.
IntMax == 2147483647
IntMin == 0 - IntMax - 1

\* The digits of text from k on, accumulated as the negated number so
\* that the magnitude of INT_MIN is held: [digits, negated, overflow],
\* overflow when the magnitude exceeds 2147483648.
RECURSIVE ReadDigits(_, _, _)
ReadDigits(text, k, got) ==
  IF k > Len(text) \/ text[k] \notin DOMAIN DigitValue THEN got
  ELSE LET d == DigitValue[text[k]]
           fits == /\ ~got.overflow
                   /\ \/ got.negated > 0 - (IntMax \div 10)
                      \/ got.negated = 0 - (IntMax \div 10) /\ d <= 8
       IN ReadDigits(text, k + 1,
            [digits |-> got.digits + 1,
             negated |-> IF fits THEN got.negated * 10 - d ELSE got.negated,
             overflow |-> ~fits])

Stoi(text) ==
  LET first == SkipSpace(text, 1)
      signed == first <= Len(text) /\ text[first] \in {"+", "-"}
      minus == signed /\ text[first] = "-"
      got == ReadDigits(text, IF signed THEN first + 1 ELSE first,
                        [digits |-> 0, negated |-> 0, overflow |-> FALSE])
  IN IF got.digits = 0 THEN [thrown |-> "invalid_argument", value |-> 0]
     ELSE IF got.overflow \/ (~minus /\ got.negated = IntMin)
       THEN [thrown |-> "out_of_range", value |-> 0]
     ELSE [thrown |-> "none", value |-> IF minus THEN got.negated ELSE 0 - got.negated]

\* The flags of extractCLinfo and their defaults.
OptionalIntVariables == {"start-position", "window-size", "step-size"}
RequiredStringVariables == <<"input-file", "out-file">>
OptionalStringVariables == {"impute-missing", "out-format", "query-sequence", "sorted"}
DefaultIntValues ==
  ("start-position" :> 1) @@ ("window-size" :> 100) @@ ("step-size" :> 10)
DefaultStringValues ==
  ("impute-missing" :> TextUnset) @@ ("out-format" :> TextTab)
    @@ ("query-sequence" :> TextUnset) @@ ("sorted" :> TextUnset)

\* What extractCLinfo throws for a required flag that is missing.
RequiredMessage(flag) ==
  IF flag = "input-file" THEN "ERROR: input-file specification is required"
  ELSE "ERROR: out-file specification is required"

\* extractCLinfo(parsedCLI, intVariables, stringVariables): what it
\* throws ("none" when it returns) and the two maps as it leaves them.
\* A required flag that is missing throws out of the loop over the
\* required flags: those before it are stored already.
ExtractCLinfo(parsedCLI) ==
  LET missing == { k \in 1..Len(RequiredStringVariables) :
                     RequiredStringVariables[k] \notin DOMAIN parsedCLI }
      firstMissing == CHOOSE k \in missing : \A j \in missing : k <= j
      ints == [flag \in OptionalIntVariables |->
                 IF flag \in DOMAIN parsedCLI /\ Stoi(parsedCLI[flag]).thrown = "none"
                   THEN Stoi(parsedCLI[flag]).value
                   ELSE DefaultIntValues[flag]]
      strings == [flag \in Range(RequiredStringVariables) \cup OptionalStringVariables |->
                    IF flag \in DOMAIN parsedCLI THEN parsedCLI[flag]
                    ELSE DefaultStringValues[flag]]
  IN IF DOMAIN parsedCLI = {}
       THEN [error |-> "No command line flags specified;",
             intVariables |-> EmptyMap, stringVariables |-> EmptyMap]
     ELSE IF missing /= {}
       THEN [error |-> RequiredMessage(RequiredStringVariables[firstMissing]),
             intVariables |-> ints,
             stringVariables |->
               [flag \in { RequiredStringVariables[k] : k \in 1..(firstMissing - 1) } |->
                  parsedCLI[flag]]]
     ELSE [error |-> "none", intVariables |-> ints, stringVariables |-> strings]

\* ------------------------------------------------------ main of homoruns

\* The alignment files of the runs of homoruns: two records of DriverLen
\* symbols, the first without a missing symbol.
DriverLen == 3

DriverFiles ==
  { AlignmentFile(<< [i \in 1..DriverLen |-> "A"], second >>) :
      second \in [1..DriverLen -> {"A", "N"}] }

\* The file a name opens: in.fa is the input, no other file exists (its
\* stream yields no line).
TextInFa == <<"i", "n", ".", "f", "a">>
TextOutTsv == <<"o", "u", "t", ".", "t", "s", "v">>

FileNamed(name) ==
  IF name = TextInFa THEN input ELSE [lines |-> <<>>, finalNewline |-> TRUE]

\* The flags of homoruns with their values, each a run of arguments.
WindowSizeTexts == {<<"0">>, <<"1">>, <<VerticalTab, "+", "1", "x">>}
StepSizeTexts == {<<"-", "2">>, <<"-", "1">>, <<"0">>, <<"1">>}

FlagGroups ==
  { <<FlagToken("input-file"), ValueToken(TextInFa)>>,
    <<FlagToken("out-file"), ValueToken(TextOutTsv)>>,
    <<FlagToken("impute-missing")>> }
  \cup { <<FlagToken("window-size"), ValueToken(w)>> : w \in WindowSizeTexts }
  \cup { <<FlagToken("step-size"), ValueToken(st)>> : st \in StepSizeTexts }

\* The flags of the help text of homoruns.
FlagNames == { group[1].text : group \in FlagGroups }

RECURSIVE Flatten(_)
Flatten(groups) ==
  IF groups = <<>> THEN <<>> ELSE Head(groups) \o Flatten(Tail(groups))

\* The command lines: the flags in any order, each at most once.
Argvs ==
  { Flatten(groups) :
      groups \in { gs \in SeqsUpTo(FlagGroups, Cardinality(FlagNames)) :
                     \A i, j \in 1..Len(gs) : i < j => gs[i][1].text /= gs[j][1].text } }

InitDriver ==
  /\ input \in DriverFiles
  /\ InitStore
  /\ \E argv \in Argvs : driver = [IdleDriver EXCEPT !.pc = "main", !.argv = argv]

\* catch(std::string &problem): the message is printed and main returns 1.
Caught(problem) ==
  [driver EXCEPT !.pc = "exit", !.message = problem, !.status = "1"]

\* BayesicSpace::parseCL(argc, argv, clInfo);
MainParseCL ==
  /\ driver.pc = "main"
  /\ driver' = [driver EXCEPT !.pc = "parsed", !.cli = ParseCL(driver.argv)]
  /\ UNCHANGED <<input, pc, error, fastaAlignment_, consensus_, imputeCalls, lastOp, scan>>

\* BayesicSpace::extractCLinfo(clInfo, intVariables, stringVariables);
MainExtractCLinfo ==
  /\ driver.pc = "parsed"
  /\ LET info == ExtractCLinfo(driver.cli)
     IN driver' = IF info.error /= "none"
                    THEN [Caught(info.error) EXCEPT
                            !.intVariables = info.intVariables,
                            !.stringVariables = info.stringVariables]
                  ELSE [driver EXCEPT !.pc = "extracted",
                                      !.intVariables = info.intVariables,
                                      !.stringVariables = info.stringVariables]
  /\ UNCHANGED <<input, pc, error, fastaAlignment_, consensus_, imputeCalls, lastOp, scan>>

\* BayesicSpace::ParseFASTA fastaAlign( stringVariables.at("input-file") );
MainConstruct ==
  /\ driver.pc = "extracted"
  /\ pc = "start"
  /\ LET made == ParseFASTA(FileNamed(driver.stringVariables["input-file"]))
     IN /\ pc' = IF made.error = "none" THEN "built" ELSE "failed"
        /\ error' = made.error
        /\ fastaAlignment_' = made.fastaAlignment
        /\ consensus_' = made.consensus
        /\ driver' = IF made.error /= "none" THEN Caught(made.error)
                      ELSE [driver EXCEPT !.pc = "constructed"]
  /\ UNCHANGED <<input, imputeCalls, lastOp, scan>>

\* if (stringVariables.at("impute-missing") == "set") fastaAlign.imputeMissing();
MainImputeMissing ==
  /\ driver.pc = "constructed"
  /\ IF driver.stringVariables["impute-missing"] = TextSet
       THEN /\ fastaAlignment_' = ImputeRecords(fastaAlignment_, consensus_)
            /\ imputeCalls' = imputeCalls + 1
            /\ lastOp' = [NoOp EXCEPT !.op = "imputeMissing", !.outcome = "returned"]
       ELSE UNCHANGED <<fastaAlignment_, imputeCalls, lastOp>>
  /\ driver' = [driver EXCEPT !.pc = "imputed"]
  /\ UNCHANGED <<input, pc, error, consensus_, scan>>

\* The two tests of main on the sizes, the second one on window-size
\* again, and the call fastaAlign.diversityInWindows(windowSize, stepSize)
\* up to the first test of its loop condition; the sizes are the ints
\* cast to size_t.
MainDiversityInWindows ==
  /\ driver.pc = "imputed"
  /\ IF ~(driver.intVariables["window-size"] > 0)
       THEN /\ driver' = Caught("ERROR: window size must be > 0")
            /\ UNCHANGED <<lastOp, scan>>
     ELSE IF ~(driver.intVariables["window-size"] > 0)
       THEN /\ driver' = Caught("ERROR: step size must be > 0")
            /\ UNCHANGED <<lastOp, scan>>
     ELSE /\ scan' = [pc |-> "loop",
                      windowSize |-> driver.intVariables["window-size"],
                      stepSize |-> driver.intVariables["step-size"],
                      windowStart |-> 0,
                      windowEnd |-> driver.intVariables["window-size"],
                      result |-> <<>>]
          /\ lastOp' = [NoOp EXCEPT !.op = "diversityInWindows"]
          /\ driver' = [driver EXCEPT !.pc = "scanning"]
  /\ UNCHANGED <<input, pc, error, fastaAlignment_, consensus_, imputeCalls>>

\* saveDiversityTable(result, outStream): per window its start + 1 and
\* its counts; main then returns 0.
MainSave ==
  /\ driver.pc = "scanning"
  /\ scan.pc = "returned"
  /\ driver' = [driver EXCEPT
                  !.pc = "exit", !.status = "0",
                  !.output = [k \in 1..Len(scan.result) |->
                                [position |-> scan.result[k].first + 1,
                                 counts |-> scan.result[k].second]]]
  /\ UNCHANGED <<input, pc, error, fastaAlignment_, consensus_, imputeCalls, lastOp, scan>>

\* The std::out_of_range of diversityInWindows is no std::string: no
\* handler catches it and std::terminate aborts the process.
MainTerminate ==
  /\ driver.pc = "scanning"
  /\ scan.pc = "out_of_range"
  /\ driver' = [driver EXCEPT !.pc = "exit", !.status = "aborted"]
  /\ UNCHANGED <<input, pc, error, fastaAlignment_, consensus_, imputeCalls, lastOp, scan>>

NextDriver ==
  \/ MainParseCL
  \/ MainExtractCLinfo
  \/ MainConstruct
  \/ MainImputeMissing
  \/ MainDiversityInWindows
  \/ ScanStep
  \/ ScanReturn
  \/ MainSave
  \/ MainTerminate

SpecDriver == InitDriver /\ [][NextDriver]_vars

\* The stores extractSequence is called on: those of the files of the
\* runs of homoruns.
InitQuery ==
  /\ input \in DriverFiles
  /\ InitStore
  /\ driver = IdleDriver

NextQuery ==
  \/ Construct
  \/ ImputeMissing
  \/ ExtractSequence

SpecQuery == InitQuery /\ [][NextQuery]_vars

\* ------------------------- diversityInWindows over the range of size_t

\* ParseFASTA::diversityInWindows(windowSize, stepSize) called with any
\* size_t: the small values and those at the top of the range (-k is
\* 2^64 - k).  windowStart += stepSize and windowEnd += stepSize wrap
\* around as unsigned sums do.
ScanCallSizeT ==
  /\ Callable
  /\ \E windowSize \in (-1)..(AlignmentLength(fastaAlignment_) + 1),
        stepSize \in (-MaxStep)..MaxStep :
       scan' = [pc |-> "loop", windowSize |-> windowSize, stepSize |-> stepSize,
                windowStart |-> 0, windowEnd |-> windowSize, result |-> <<>>]
  /\ lastOp' = [NoOp EXCEPT !.op = "diversityInWindows"]
  /\ UNCHANGED <<input, pc, error, fastaAlignment_, consensus_, imputeCalls, driver>>

\* The scans of the stores of valid alignments.
InitScan ==
  /\ input \in AlignmentFiles
  /\ InitStore
  /\ driver = IdleDriver

NextScan ==
  \/ Construct
  \/ ScanCallSizeT
  \/ ScanStep
  \/ ScanReturn

SpecScan == InitScan /\ [][NextScan]_vars

\* A call that is running goes on running: the loop takes its next
\* iteration, or returns, as long as it can.
SpecScanFair == SpecScan /\ WF_vars(ScanStep) /\ WF_vars(ScanReturn)

\* ------------------------------------------------------- properties

\* The number of records and the alignment length of the built store.
N == Len(fastaAlignment_)
L == AlignmentLength(fastaAlignment_)

\* The symbols of column i (1-based) of the records, one per record.
Column(i) == [r \in 1..N |-> fastaAlignment_[r].second[i]]

\* How many records hold symbol c at column i.
Occurrences(i, c) == Cardinality({ r \in 1..N : fastaAlignment_[r].second[i] = c })

\* C1: when extractWindow(start, size) is called on a constructed store
\* with start + size <= L, it returns a table whose counts sum to the
\* number of records.
C1_WindowCountsSumToN ==
  (pc = "built" /\ lastOp.op = "extractWindow" /\ lastOp.start + lastOp.size <= L)
    => /\ lastOp.outcome = "returned"
       /\ SumCounts(lastOp.table) = N

C1_Witness ==
  /\ pc = "built" /\ lastOp.op = "extractWindow" /\ lastOp.outcome = "returned"
  /\ lastOp.size >= 2 /\ lastOp.start >= 1 /\ lastOp.start + lastOp.size <= L
  /\ N = 2
  /\ Cardinality(DOMAIN lastOp.table) = 2

\* The window starts of the scan's result, in the order they were emitted.
ScanStarts == [k \in 1..Len(scan.result) |-> scan.result[k].first]

\* C2: the windows diversityInWindows(windowSize, stepSize) returns start
\* at 0, stepSize, 2*stepSize, ... in this order; a multiple s of stepSize
\* is among them exactly when s + windowSize < L; so there is none when
\* windowSize >= L, every start is below L, and no window ends at L.
C2_ScanStarts ==
  scan.pc = "returned" =>
    /\ \A k \in 1..Len(scan.result) : ScanStarts[k] = (k - 1) * scan.stepSize
    /\ \A k \in 0..(L + 1) :
         (k * scan.stepSize + scan.windowSize < L) <=> (k + 1 <= Len(scan.result))
    /\ (scan.windowSize >= L => scan.result = <<>>)
    /\ \A k \in 1..Len(scan.result) :
         /\ ScanStarts[k] < L
         /\ ScanStarts[k] + scan.windowSize /= L

C2_Witness ==
  /\ scan.pc = "returned"
  /\ scan.stepSize >= 1
  /\ Len(scan.result) >= 2
  /\ Len(scan.result) * scan.stepSize + scan.windowSize = L

\* C3: the counts of every window diversityInWindows has emitted sum to
\* the number of records.
C3_ScanCountsSumToN ==
  \A k \in 1..Len(scan.result) : SumBag(scan.result[k].second) = N

C3_Witness ==
  /\ scan.pc = "returned"
  /\ Len(scan.result) >= 2
  /\ \E k \in 1..Len(scan.result) : \E c \in DOMAIN scan.result[k].second :
       scan.result[k].second[c] >= 2
  /\ \E k \in 1..Len(scan.result) : DOMAIN scan.result[k].second = {N}

\* C4: in the store as constructed, the consensus symbol of every column
\* is a standard symbol no other standard symbol outnumbers in that
\* column, and N when the column holds no standard symbol.
C4_ConsensusIsMajority ==
  (pc = "built" /\ imputeCalls = 0) =>
    \A i \in 1..L :
      IF \A r \in 1..N : Column(i)[r] \notin ConsensusNucleotides
        THEN consensus_[i] = "N"
        ELSE /\ consensus_[i] \in ConsensusNucleotides
             /\ Occurrences(i, consensus_[i]) >= 1
             /\ \A c \in ConsensusNucleotides :
                  Occurrences(i, c) <= Occurrences(i, consensus_[i])

C4_Witness ==
  /\ pc = "built" /\ imputeCalls = 0 /\ N = 3 /\ L = 2
  /\ \E i \in 1..L : \A r \in 1..N : Column(i)[r] \notin ConsensusNucleotides
  /\ \E i \in 1..L :
       /\ Occurrences(i, "A") = 1
       /\ Occurrences(i, "N") = 2
       /\ consensus_[i] = "N"

\* C5: in a constructed store the consensus is as long as the alignment
\* and holds standard symbols only, whatever the number of imputeMissing
\* calls made since.
C5_ConsensusShape ==
  pc = "built" =>
    /\ Len(consensus_) = L
    /\ \A i \in 1..Len(consensus_) : consensus_[i] \in ConsensusNucleotides

C5_Witness ==
  /\ pc = "built" /\ imputeCalls >= 2 /\ L >= 2
  /\ \E i \in 1..L : consensus_[i] = "A"
  /\ \E i \in 1..L : consensus_[i] = "N"

\* C6: a call of imputeMissing leaves every record symbol of
\* {A,a,C,c,T,t,G,g,-} as it is and replaces every other symbol, N and n
\* among them, by the consensus symbol of its column.
C6_ImputeReplacesMissingOnly ==
  [][(imputeCalls' /= imputeCalls /\ ImputeMissing) =>
       /\ Len(fastaAlignment_') = Len(fastaAlignment_)
       /\ \A r \in 1..Len(fastaAlignment_) :
            /\ Len(fastaAlignment_'[r].second) = Len(fastaAlignment_[r].second)
            /\ \A i \in 1..Len(fastaAlignment_[r].second) :
                 fastaAlignment_'[r].second[i] =
                   IF fastaAlignment_[r].second[i]
                        \in {"A", "a", "C", "c", "T", "t", "G", "g", "-"}
                     THEN fastaAlignment_[r].second[i]
                     ELSE consensus_[i]]_vars

\* The symbol record r had at column i in the input, for a file with each
\* record on two lines.
InputSymbol(r, i) == input.lines[2 * r][i]

C6_Witness ==
  /\ pc = "built" /\ imputeCalls = 1 /\ lastOp.op = "imputeMissing"
  /\ Len(input.lines) = 2 * N /\ L >= 2
  /\ \E r \in 1..N : \E i \in 1..L :
       InputSymbol(r, i) = "N" /\ fastaAlignment_[r].second[i] = "A"
  /\ \E r \in 1..N : \E i \in 1..L :
       InputSymbol(r, i) = "Y" /\ fastaAlignment_[r].second[i] = "N"
  /\ \E r \in 1..N : \E i \in 1..L :
       InputSymbol(r, i) = "A" /\ consensus_[i] = "N"
                               /\ fastaAlignment_[r].second[i] = "A"

\* C7: a call of imputeMissing that follows a call of imputeMissing
\* changes no symbol of any record.
C7_ImputeIdempotent ==
  [][(imputeCalls >= 1 /\ lastOp.op = "imputeMissing"
        /\ imputeCalls' /= imputeCalls /\ ImputeMissing)
       => fastaAlignment_' = fastaAlignment_]_vars

C7_Witness ==
  /\ pc = "built" /\ imputeCalls = 2 /\ lastOp.op = "imputeMissing"
  /\ Len(input.lines) = 2 * N /\ L >= 2
  /\ \E r \in 1..N : \E i \in 1..L :
       /\ InputSymbol(r, i) = "Y"
       /\ consensus_[i] = "N"
       /\ fastaAlignment_[r].second[i] = "N"
  /\ \E r \in 1..N : \E i \in 1..L :
       InputSymbol(r, i) = "N" /\ fastaAlignment_[r].second[i] = "A"

\* C8: extractConsensusWindow(start, size) fails, and returns nothing,
\* when start + size exceeds the length of the consensus, and returns the
\* consensus symbols [start, start + size) otherwise.
C8_ConsensusWindowChecked ==
  lastOp.op = "extractConsensusWindow" =>
    IF lastOp.start + lastOp.size > Len(consensus_)
      THEN lastOp.outcome /= "returned"
      ELSE /\ lastOp.outcome = "returned"
           /\ lastOp.window =
                SubSeq(consensus_, lastOp.start + 1, lastOp.start + lastOp.size)

\* C9: extractWindow(start, size) throws when start > L; when start <= L
\* and start + size > L it returns, and its table is the tally of the
\* records' symbols [start, L).
C9_WindowBoundary ==
  (lastOp.op = "extractWindow" /\ pc = "built") =>
    /\ lastOp.start > L => lastOp.outcome = "out_of_range"
    /\ (lastOp.start <= L /\ lastOp.start + lastOp.size > L) =>
         /\ lastOp.outcome = "returned"
         /\ lastOp.table =
              [key \in { SubSeq(fastaAlignment_[r].second, lastOp.start + 1, L) :
                           r \in 1..N } |->
                 Cardinality({ r \in 1..N :
                   SubSeq(fastaAlignment_[r].second, lastOp.start + 1, L) = key })]

C9_Witness ==
  /\ pc = "built" /\ lastOp.op = "extractWindow" /\ lastOp.outcome = "returned"
  /\ lastOp.start >= 1 /\ lastOp.start < L /\ lastOp.start + lastOp.size > L
  /\ N = 3
  /\ \E key \in DOMAIN lastOp.table :
       /\ Len(key) = L - lastOp.start
       /\ Len(key) < lastOp.size
       /\ lastOp.table[key] = 2

\* A line that holds nothing, or nothing but spaces.
Blank(line) == \A j \in 1..Len(line) : line[j] = " "

\* A line that starts with the marker.
Marker(line) == line /= <<>> /\ line[1] = ">"

\* The first line of the input that is not empty starts with the marker,
\* and so does the first line that is not blank.
StartsWithMarker ==
  /\ \E i \in 1..Len(input.lines) :
       /\ Marker(input.lines[i])
       /\ \A j \in 1..(i - 1) : input.lines[j] = <<>>
  /\ \E i \in 1..Len(input.lines) :
       /\ Marker(input.lines[i])
       /\ \A j \in 1..(i - 1) : Blank(input.lines[j])

\* Some marker line has a label that is empty or all spaces.
SomeBlankLabel ==
  \E i \in 1..Len(input.lines) :
    Marker(input.lines[i]) /\ \A j \in 2..Len(input.lines[i]) : input.lines[i][j] = " "

\* The marker lines of the input.
MarkerLines == { i \in 1..Len(input.lines) : Marker(input.lines[i]) }

\* C10: construction throws and leaves no store when the input has no
\* line that is not blank, when its first such line does not start with
\* ">", when a marker line has a label of spaces only, or when it holds
\* fewer than two records.
C10_MalformedInputRejected ==
  (pc /= "start"
     /\ \/ \A i \in 1..Len(input.lines) : Blank(input.lines[i])
        \/ ~StartsWithMarker
        \/ SomeBlankLabel
        \/ Cardinality(MarkerLines) < 2)
    => /\ pc = "failed"
       /\ error /= "none"
       /\ fastaAlignment_ = <<>>
       /\ consensus_ = <<>>

C10_Witness ==
  /\ pc = "failed" /\ error = "blank header"
  /\ Len(input.lines) >= 3
  /\ input.lines[1] = <<">", "y">>
  /\ input.lines[2] = <<"A">>
  /\ input.lines[3] = <<">", " ">>

\* The marker line that follows line i, one past the last line when none
\* does.
NextMarker(i) ==
  IF \E j \in MarkerLines : j > i
    THEN CHOOSE j \in MarkerLines : j > i /\ \A k \in MarkerLines : k > i => j <= k
    ELSE Len(input.lines) + 1

\* The symbols on the lines from..to of the input.
RECURSIVE SymbolsOnLines(_, _)
SymbolsOnLines(from, to) ==
  IF from > to THEN 0 ELSE Len(input.lines[from]) + SymbolsOnLines(from + 1, to)

\* The symbols the input holds for the record of marker line i.
BodyLength(i) == SymbolsOnLines(i + 1, NextMarker(i) - 1)

\* The first marker line of the input.
FirstMarker == CHOOSE i \in MarkerLines : \A j \in MarkerLines : i <= j

\* Every sequence of recs is as long as the first record of the input.
AllOfInputLength(recs) ==
  \A r \in 1..Len(recs) : Len(recs[r].second) = BodyLength(FirstMarker)

\* C11: construction throws when two records of the input differ in the
\* length of their sequences; so the sequences of a constructed store,
\* and of every store copied or moved from it, all have the length of
\* the first record of the input, whatever calls were made since.
C11_EqualLengths ==
  /\ (pc /= "start" /\ \E i, j \in MarkerLines : BodyLength(i) /= BodyLength(j))
       => pc = "failed" /\ error /= "none"
  /\ pc = "built" => AllOfInputLength(fastaAlignment_)
  /\ lastOp.object.live => AllOfInputLength(lastOp.object.fastaAlignment)

C11_Witness ==
  /\ pc = "failed" /\ error = "sequences differ in length"
  /\ Cardinality(MarkerLines) = 2
  /\ \E i, j \in MarkerLines : i < j /\ BodyLength(i) = 1 /\ BodyLength(j) = 2

\* Every store there is holds at least two records.
AtLeastTwoRecords ==
  /\ pc \in {"built", "empty"} => Len(fastaAlignment_) >= 2
  /\ lastOp.object.live => Len(lastOp.object.fastaAlignment) >= 2

\* C12 as stated: every store reachable by construction from a file, by
\* default construction, by copy and move construction and assignment and
\* by imputeMissing holds at least 2 records, so that alignmentLength()
\* returns on it.
C12_EveryStoreHasTwoRecords ==
  /\ AtLeastTwoRecords
  /\ lastOp.op = "alignmentLength" => lastOp.outcome = "returned"

\* C12, amended: a store constructed from a file holds at least 2 records,
\* and so does every copy of it and every store it is moved into, also
\* after imputeMissing; a default-constructed store, a store that was
\* moved from and a store assigned from either hold no record, and
\* alignmentLength() throws on them and returns on the others.
C12_StoresHaveTwoRecordsOrNone ==
  /\ pc = "built" => Len(fastaAlignment_) >= 2
  /\ pc = "empty" => fastaAlignment_ = <<>>
  /\ lastOp.object.live =>
       \/ Len(lastOp.object.fastaAlignment) >= 2
       \/ lastOp.object.fastaAlignment = <<>>
  /\ lastOp.op = "ParseFASTA()" => lastOp.object.fastaAlignment = <<>>
  /\ lastOp.op = "ParseFASTA(const ParseFASTA &)" =>
       lastOp.object.fastaAlignment = fastaAlignment_
  /\ lastOp.op = "ParseFASTA(ParseFASTA &&)" => fastaAlignment_ = <<>>
  /\ lastOp.op = "operator=(ParseFASTA &&)" => lastOp.object.fastaAlignment = <<>>
  /\ lastOp.op = "alignmentLength" =>
       /\ lastOp.outcome = "returned" <=> Len(fastaAlignment_) >= 2
       /\ lastOp.outcome = "out_of_range" <=> fastaAlignment_ = <<>>

C12_Witness ==
  /\ pc = "empty" /\ imputeCalls = 1
  /\ lastOp.op = "ParseFASTA(ParseFASTA &&)"
  /\ Len(lastOp.object.fastaAlignment) = 2
  /\ \E r \in 1..2 : lastOp.object.fastaAlignment[r].second = <<"N", "A">>

\* C14: for the alignment AACCGGTTAA, AACCGGTTAA, AACCGGTTGG the consensus
\* is AACCGGTTAA, extractWindow(0, 4) returns {AACC: 3} and
\* extractWindow(6, 4) returns {TTAA: 2, TTGG: 1}.
C14_Scenario ==
  /\ pc = "built" => consensus_ = <<"A", "A", "C", "C", "G", "G", "T", "T", "A", "A">>
  /\ (pc = "built" /\ lastOp.op = "extractWindow"
        /\ lastOp.start = 0 /\ lastOp.size = 4)
       => /\ lastOp.outcome = "returned"
          /\ lastOp.table = (<<"A", "A", "C", "C">> :> 3)
  /\ (pc = "built" /\ lastOp.op = "extractWindow"
        /\ lastOp.start = 6 /\ lastOp.size = 4)
       => /\ lastOp.outcome = "returned"
          /\ lastOp.table = (<<"T", "T", "A", "A">> :> 2) @@ (<<"T", "T", "G", "G">> :> 1)

C14_Witness ==
  /\ input = AlignmentFile(ScenarioSequences)
  /\ pc = "built" /\ imputeCalls = 0
  /\ lastOp.op = "extractWindow" /\ lastOp.start = 6 /\ lastOp.size = 4
  /\ DOMAIN lastOp.table = {<<"T", "T", "A", "A">>, <<"T", "T", "G", "G">>}

\* The lower-case nucleotide letters.
LowerCase == {"a", "c", "g", "t", "n"}

\* C15: no symbol of the consensus of a constructed store is a lower-case
\* letter, lower-case nucleotides in the records included.
C15_ConsensusUpperCase ==
  pc = "built" => \A i \in 1..Len(consensus_) : consensus_[i] \notin LowerCase

\* The flags of the command line that no value follows, and those a value
\* follows.
ValuelessFlags ==
  { i \in 1..Len(driver.argv) :
      /\ driver.argv[i].dashes
      /\ i = Len(driver.argv) \/ driver.argv[i + 1].dashes }
ValuedFlags ==
  { i \in 1..Len(driver.argv) :
      /\ driver.argv[i].dashes
      /\ i < Len(driver.argv) /\ ~driver.argv[i + 1].dashes }

\* C16: parseCL maps a flag with no value to "set" wherever it stands,
\* the last argument included, and a flag followed by a value to that
\* value; so a run of homoruns with --impute-missing that reaches the
\* scan has called imputeMissing.
C16_ValuelessFlagIsSet ==
  /\ driver.pc \notin {"idle", "main"} =>
       /\ \A i \in ValuelessFlags :
            /\ driver.argv[i].text \in DOMAIN driver.cli
            /\ driver.cli[driver.argv[i].text] = TextSet
       /\ \A i \in ValuedFlags :
            /\ driver.argv[i].text \in DOMAIN driver.cli
            /\ driver.cli[driver.argv[i].text] = driver.argv[i + 1].text
  /\ (driver.pc \in {"imputed", "scanning"}
        /\ \E i \in ValuelessFlags : driver.argv[i].text = "impute-missing")
       => imputeCalls = 1

\* The k-th marker line of the input.
KthMarker(k) ==
  CHOOSE i \in MarkerLines : Cardinality({ j \in MarkerLines : j < i }) = k - 1

\* The lines from..to of the input, one after the other.
RECURSIVE LinesJoined(_, _)
LinesJoined(from, to) ==
  IF from > to THEN <<>> ELSE input.lines[from] \o LinesJoined(from + 1, to)

\* header is the marker line without its ">" and the spaces after it.
IsLabelOf(header, line) ==
  /\ header /= <<>>
  /\ header[1] /= " "
  /\ \E spaces \in 0..(Len(line) - 1) :
       /\ \A i \in 2..(spaces + 1) : line[i] = " "
       /\ header = SubSeq(line, spaces + 2, Len(line))

\* C17: a constructed store holds one record per marker line of the
\* input, in the order of these lines; the header of a record is its
\* marker line without the ">" and the spaces that follow it, and its
\* sequence is the lines between its marker line and the next one (or
\* the end of the input), joined in order with nothing between them.
C17_RecordsAsInInput ==
  (pc = "built" /\ imputeCalls = 0) =>
    /\ N = Cardinality(MarkerLines)
    /\ \A k \in 1..N :
         /\ IsLabelOf(fastaAlignment_[k].first, input.lines[KthMarker(k)])
         /\ fastaAlignment_[k].second =
              LinesJoined(KthMarker(k) + 1, NextMarker(KthMarker(k)) - 1)

C17_Witness ==
  /\ pc = "built" /\ N = 2
  /\ input.lines[1] = <<">", " ", "x">>
  /\ fastaAlignment_[1].first = <<"x">>
  /\ NextMarker(1) = 4
  /\ input.lines[2] /= <<>> /\ input.lines[3] /= <<>>
  /\ input.lines[2] /= input.lines[3]
  /\ fastaAlignment_[1].second /= fastaAlignment_[2].second

\* C18: extractSequence throws when the aligner's result has
\* ref_begin < 0, ref_end < ref_begin, query_begin < 0 or
\* query_end < query_begin; otherwise it returns ref_begin,
\* ref_end - ref_begin, query_begin and query_end - query_begin; and it
\* changes neither the records nor the consensus.
C18_ExtractSequenceChecked ==
  /\ [](lastOp.op = "extractSequence" =>
          IF \/ lastOp.alignment.ref_begin < 0
             \/ lastOp.alignment.ref_end < lastOp.alignment.ref_begin
             \/ lastOp.alignment.query_begin < 0
             \/ lastOp.alignment.query_end < lastOp.alignment.query_begin
            THEN lastOp.outcome /= "returned" /\ lastOp.statistics = <<>>
            ELSE /\ lastOp.outcome = "returned"
                 /\ lastOp.statistics.referenceStart = lastOp.alignment.ref_begin
                 /\ lastOp.statistics.referenceLength =
                      lastOp.alignment.ref_end - lastOp.alignment.ref_begin
                 /\ lastOp.statistics.queryStart = lastOp.alignment.query_begin
                 /\ lastOp.statistics.queryLength =
                      lastOp.alignment.query_end - lastOp.alignment.query_begin)
  /\ [][lastOp'.op = "extractSequence" /\ lastOp' /= lastOp =>
          fastaAlignment_' = fastaAlignment_ /\ consensus_' = consensus_]_vars

C18_Witness ==
  /\ pc = "built" /\ lastOp.op = "extractSequence" /\ lastOp.outcome = "returned"
  /\ imputeCalls = 1
  /\ lastOp.statistics.referenceStart = 0 /\ lastOp.statistics.referenceLength = 1
  /\ lastOp.statistics.queryStart = 1 /\ lastOp.statistics.queryLength = 0

\* C19: a call of imputeMissing leaves the consensus, the number of
\* records, every header in its place and the length of every sequence
\* as they were; so a consensus window read inside the consensus holds
\* the symbols of the consensus the constructor built, whatever calls of
\* imputeMissing came before.
C19_ImputeFrame ==
  /\ [][imputeCalls' = imputeCalls + 1 =>
          /\ consensus_' = consensus_
          /\ pc' = pc
          /\ Len(fastaAlignment_') = Len(fastaAlignment_)
          /\ \A r \in 1..Len(fastaAlignment_) :
               /\ fastaAlignment_'[r].first = fastaAlignment_[r].first
               /\ Len(fastaAlignment_'[r].second) = Len(fastaAlignment_[r].second)]_vars
  /\ []((pc = "built" /\ lastOp.op = "extractConsensusWindow"
           /\ lastOp.start + lastOp.size <= Len(consensus_))
          => /\ lastOp.outcome = "returned"
             /\ lastOp.window = SubSeq(ParseFASTA(input).consensus,
                                        lastOp.start + 1, lastOp.start + lastOp.size))

C19_Witness ==
  /\ pc = "built" /\ imputeCalls = 1
  /\ lastOp.op = "extractConsensusWindow" /\ lastOp.outcome = "returned"
  /\ lastOp.start = 0 /\ lastOp.size = L /\ L >= 2
  /\ Len(input.lines) = 2 * N
  /\ \E r \in 1..N : \E i \in 1..L :
       InputSymbol(r, i) = "N" /\ fastaAlignment_[r].second[i] = "A"
  /\ \E i \in 1..L : lastOp.window[i] = "A"
  /\ \E i \in 1..L : lastOp.window[i] = "N"

\* C20: a run of homoruns whose window size is > 0 and whose step size is
\* not > 0 never calls diversityInWindows: once past the two tests it has
\* ended with the message "ERROR: step size must be > 0" and the exit
\* status 1.
C20_StepSizeRejected ==
  (/\ driver.pc \in {"scanning", "exit"}
   /\ pc = "built"
   /\ driver.intVariables["window-size"] > 0
   /\ ~(driver.intVariables["step-size"] > 0))
    => /\ driver.pc = "exit"
       /\ driver.message = "ERROR: step size must be > 0"
       /\ driver.status = "1"
       /\ scan.pc = "idle"

\* The counts of the table extractWindow(start, size) returns on the
\* records as they are, as a multiset: the records are grouped by their
\* symbols [start, min(start + size, L)), and each group is counted.
WindowCounts(start, size) ==
  LET key(r) == SubSeq(fastaAlignment_[r].second, start + 1, Min(start + size, L))
      groups == { { q \in 1..N : key(q) = key(r) } : r \in 1..N }
  IN [c \in { Cardinality(g) : g \in groups } |->
        Cardinality({ g \in groups : Cardinality(g) = c })]

\* C21: for every window start s diversityInWindows(windowSize, stepSize)
\* has emitted, extractWindow(s, windowSize) returns on the same store,
\* the counts recorded for s are, as a multiset, the counts of its table,
\* and every substring tallied for s has length exactly windowSize.
C21_ScanWindowIsExtractWindow ==
  pc = "built" =>
    \A k \in 1..Len(scan.result) :
      LET s == scan.result[k].first
      IN /\ ~SubstrThrows(fastaAlignment_, s)
         /\ scan.result[k].second = WindowCounts(s, scan.windowSize)
         /\ \A r \in 1..N :
              Len(Substr(fastaAlignment_[r].second, s, scan.windowSize))
                = scan.windowSize

C21_Witness ==
  /\ pc = "built" /\ scan.pc = "returned"
  /\ scan.windowSize >= 1 /\ scan.stepSize >= 1 /\ Len(scan.result) >= 2
  /\ N = 2
  /\ \E k \in 1..Len(scan.result) : scan.result[k].second = (1 :> 2)
  /\ \E k \in 1..Len(scan.result) : scan.result[k].second = (2 :> 1)

\* C22: after imputeMissing the consensus the column-majority rule
\* gives for the records as they now are is, at every column, the
\* consensus the store keeps from before the imputation.
C22_StaleConsensusConsistent ==
  (pc = "built" /\ imputeCalls >= 1) =>
    /\ Len(consensus_) = L
    /\ \A i \in 1..L : ConsensusSymbol(fastaAlignment_, i) = consensus_[i]

C22_Witness ==
  /\ pc = "built" /\ imputeCalls = 1 /\ lastOp.op = "imputeMissing"
  /\ Len(input.lines) = 2 * N /\ N = 2 /\ L >= 2
  /\ \E i \in 1..L :
       /\ InputSymbol(1, i) = "N" /\ InputSymbol(2, i) = "A"
       /\ fastaAlignment_[1].second[i] = "A"
  /\ \E i \in 1..L :
       /\ InputSymbol(1, i) = "A" /\ InputSymbol(2, i) = "N"
       /\ consensus_[i] = "N"
  /\ fastaAlignment_ /= ParseFASTA(input).fastaAlignment

\* The records in the order p (a permutation of 1..N) puts them in.
Reordered(p) == [r \in 1..N |-> fastaAlignment_[p[r]]]

\* C23: the consensus of a constructed store depends only on the symbols
\* each column holds, not on the order of the records: makeConsensus_ on
\* the same records in any other order gives the same consensus, also in
\* the columns where standard symbols tie for the highest tally.
C23_ConsensusIgnoresRecordOrder ==
  (pc = "built" /\ imputeCalls = 0) =>
    \A p \in Permutations(1..N) : MakeConsensus(Reordered(p)) = consensus_

\* ceil(a / b) for a >= 0 and b >= 1.
CeilDiv(a, b) == (a + b - 1) \div b

\* The windows the running or last scan is to emit: ceil((L - windowSize)
\* / stepSize) when windowSize < L (for a stepSize at the top of the range
\* of size_t that is 1), none otherwise.
ExpectedWindows ==
  IF Huge(scan.windowSize) \/ scan.windowSize >= L THEN 0
  ELSE IF Huge(scan.stepSize) THEN 1
  ELSE CeilDiv(L - scan.windowSize, scan.stepSize)

\* C24: a call of diversityInWindows with stepSize >= 1 returns, with
\* exactly ceil((L - windowSize) / stepSize) windows when windowSize < L
\* and none otherwise; it throws nothing, no window it tallies reaches
\* position L of a record or beyond, and while it runs the records and
\* the consensus stay as they are.
C24_ScanTerminates ==
  /\ (scan.pc = "loop" /\ scan.stepSize /= 0)
       ~> (scan.pc = "returned" /\ Len(scan.result) = ExpectedWindows)
  /\ [](scan.stepSize /= 0 => scan.pc /= "out_of_range")
  /\ []((pc = "built" /\ scan.stepSize /= 0) =>
          \A k \in 1..Len(scan.result) :
            /\ ~Huge(scan.result[k].first)
            /\ scan.result[k].first + scan.windowSize <= L)
  /\ [][scan.pc = "loop" =>
          /\ fastaAlignment_' = fastaAlignment_
          /\ consensus_' = consensus_]_vars

\* C25: all keys of the table a call extractWindow(start, size) returns
\* have the length min(size, L - start), and the call with start = L
\* returns, with the one entry that maps the empty string to N.
C25_WindowKeyLength ==
  (pc = "built" /\ lastOp.op = "extractWindow") =>
    /\ lastOp.outcome = "returned" =>
         \A key \in DOMAIN lastOp.table :
           Len(key) = Min(lastOp.size, L - lastOp.start)
    /\ lastOp.start = L =>
         /\ lastOp.outcome = "returned"
         /\ DOMAIN lastOp.table = {<<>>}
         /\ lastOp.table[<<>>] = N

C25_Witness ==
  /\ pc = "built" /\ lastOp.op = "extractWindow" /\ lastOp.outcome = "returned"
  /\ L >= 2 /\ lastOp.start = L /\ lastOp.size >= 1
  /\ \E r \in 1..N : \E q \in 1..N :
       fastaAlignment_[r].second /= fastaAlignment_[q].second
  /\ lastOp.table = (<<>> :> N)

====
